---- MODULE Spec2Model ----
(***************************************************************************)
(* Model of src/main.py (Monitor de Atividade): the status tracker         *)
(* (registrar_status), the focus tracker (registrar_programa), the poll    *)
(* loop (monitorar) running on its own thread, and the timeline refresh    *)
(* (atualizar_canvas) running on the Tk thread, all over one SQLite store  *)
(* (tables log_atividade and programas_documentos).                        *)
(*                                                                         *)
(* Time: `clock` counts seconds of local wall-clock time from 00:00:00 of  *)
(* day 0.  A stored timestamp is the text produced by                      *)
(* strftime("%Y-%m-%d %H:%M:%S"), modelled as <<dia, hora, minuto, seg>>.  *)
(* A missing timestamp (SQL NULL, Python None) is NULL, the empty tuple; a *)
(* missing string (SQL NULL, Python None) is None.                         *)
(***************************************************************************)
EXTENDS Integers, Sequences, FiniteSets, TLC

\* ----------------------------------------------------------------- bounds
MaxTicks == 3          \* poll-loop iterations in one behaviour
MaxFalhas == 1         \* storage failures injected in one behaviour
MaxReinicios == 1      \* process restarts in one behaviour
MaxAgendados == 2      \* cap on pending root.after timers
MaxDia == 1            \* last day the date navigation may select
MaxLinhasIni == 2      \* rows of a database found at start-up

\* ------------------------------------------------------ program constants
LIMITE_OCIOSO == 300
intervalo_cheque == 5
SegPorDia == 86400
SegPorHora == 3600
SegPorMin == 60
Slots == 1440
InicioExpediente == 480
FimExpediente == 1080

\* ------------------------------------------------------------ input sets
IdleVals == {0, 300}                     \* get_idle_time() samples
None == "<None>"
NULL == <<>>
NoneNum == 0 - 1
Focos == {<<None, None>>, <<"app1", "doc1">>}
ClockInicial == 9 * SegPorHora           \* 09:00:00 of day 0
Dias == 0..MaxDia
\* instants a database found at start-up may mention
Instantes == {<<0, 9, 0, 0>>, <<0, 9, 2, 0>>, <<0, 23, 50, 30>>, <<1, 0, 10, 0>>,
              <<1, 9, 1, 0>>}

\* the thread of monitorar and the main (Tk) thread
Threads == {"monitor", "tk"}

\* threading.Lock() not held
Livre == "livre"

\* a stored text that is not a '%Y-%m-%d %H:%M:%S' timestamp
Malformado == <<0 - 1>>

\* timestamps around the start of a day
InstantesMadrugada == {<<0, 23, 50, 30>>, <<1, 0, 0, 0>>, <<1, 0, 10, 0>>, <<1, 0, 20, 0>>}

VARIABLES
    clock,                 \* wall clock, seconds
    log_atividade,         \* table: sequence of rows, index = id
    programas_documentos,  \* table: sequence of rows, index = id
    status_atual, ultimo_app, ultimo_titulo, inicio_app, running,
    data_selecionada,
    m_pc,                  \* position of the monitorar thread
    idle, novo_status,     \* locals of monitorar: the sample and its class
    agora,                 \* local of registrar_status, NULL outside the call
    amostra_foco,          \* locals app, titulo of monitorar, between sample and sleep
    ticks,                 \* completed loop iterations
    u_pc,                  \* position of the Tk thread inside atualizar_canvas
    hoje, horas, rows,     \* locals of atualizar_canvas
    label_status,          \* text of the status label
    agendados,             \* pending root.after(1000, atualizar_canvas)
    falhas_permitidas,     \* storage failures the environment may still inject
    falha_status,          \* executar returned None inside the current registrar_status call
    reinicios_permitidos,  \* process restarts that may still happen
    lock,                  \* BancoUtil._lock: Livre or the thread holding it
    db_pc                  \* per thread, its position inside a `with BancoUtil._lock`

vars == <<clock, log_atividade, programas_documentos, status_atual, ultimo_app,
          ultimo_titulo, inicio_app, running, data_selecionada, m_pc, idle,
          novo_status, agora, amostra_foco, ticks, u_pc, hoje, horas, rows, label_status,
          agendados, falhas_permitidas, falha_status, reinicios_permitidos,
          lock, db_pc>>

storeVars == <<log_atividade, programas_documentos>>
trackerVars == <<status_atual, ultimo_app, ultimo_titulo, inicio_app>>
monLocals == <<idle, novo_status, agora, amostra_foco>>
lockVars == <<lock, db_pc>>
uiVars == <<u_pc, hoje, horas, rows, label_status, agendados, data_selecionada>>

\* ------------------------------------------------------ time conversions
\* datetime.now().strftime("%Y-%m-%d %H:%M:%S")
Strftime(t) ==
    <<t \div SegPorDia, (t % SegPorDia) \div SegPorHora,
      (t % SegPorHora) \div SegPorMin, t % SegPorMin>>

\* datetime.now().date()
DateOf(t) == t \div SegPorDia

\* Python truthiness of an optional string
Truthy(x) == x /= None /\ x /= ""

\* Python truthiness of an optional timestamp string (None is NULL here)
TruthyTs(x) == x /= NULL

\* SQL comparison `col = ?` on a string column: never true when either side
\* is NULL (Python None is bound as NULL)
SqlEq(col, param) == col /= None /\ param /= None /\ col = param

\* ------------------------------------------------------------ statements
\* UpdateStatus writing the timestamp into the wrong column
UpdateStatusColunaErrada(tab, fim, st) ==
    [i \in 1..Len(tab) |->
        IF SqlEq(tab[i].status, st) /\ tab[i].data_hora_final = NULL
        THEN [tab[i] EXCEPT !.data_hora = fim]
        ELSE tab[i]]

\* UpdateStatus with the status comparison inverted
UpdateStatusInvertido(tab, fim, st) ==
    [i \in 1..Len(tab) |->
        IF ~SqlEq(tab[i].status, st) /\ tab[i].data_hora_final = NULL
        THEN [tab[i] EXCEPT !.data_hora_final = fim]
        ELSE tab[i]]

\* UPDATE log_atividade SET data_hora_final = ? WHERE status = ? AND data_hora_final IS NULL
UpdateStatus(tab, fim, st) ==
    [i \in 1..Len(tab) |->
        IF SqlEq(tab[i].status, st) /\ tab[i].data_hora_final = NULL
        THEN [tab[i] EXCEPT !.data_hora_final = fim]
        ELSE tab[i]]

\* InsertStatus writing the start into the end column as well
InsertStatusFechado(tab, st, ini) ==
    Append(tab, [status |-> st, data_hora |-> ini, data_hora_final |-> ini])

\* INSERT INTO log_atividade (status, data_hora) VALUES (?, ?)
InsertStatus(tab, st, ini) ==
    Append(tab, [status |-> st, data_hora |-> ini, data_hora_final |-> NULL])

\* UPDATE programas_documentos SET data_hora_final = ? WHERE nome_programa = ?
\*   AND nome_documento = ? AND data_hora_inicio = ? AND data_hora_final IS NULL
UpdatePrograma(tab, fim, app, titulo, ini) ==
    [i \in 1..Len(tab) |->
        IF /\ SqlEq(tab[i].nome_programa, app)
           /\ SqlEq(tab[i].nome_documento, titulo)
           /\ tab[i].data_hora_inicio = ini
           /\ tab[i].data_hora_final = NULL
        THEN [tab[i] EXCEPT !.data_hora_final = fim]
        ELSE tab[i]]

\* INSERT INTO programas_documentos (nome_programa, nome_documento, data_hora_inicio)
InsertPrograma(tab, app, titulo, ini) ==
    Append(tab, [nome_programa |-> app, nome_documento |-> titulo,
                 data_hora_inicio |-> ini, data_hora_final |-> NULL])

\* Classificar with a strict comparison
ClassificarEstrito(i) == IF i > LIMITE_OCIOSO THEN "Ocioso" ELSE "Ativo"

\* "Ocioso" if get_idle_time() >= self.limite_ocioso else "Ativo"
Classificar(i) == IF i >= LIMITE_OCIOSO THEN "Ocioso" ELSE "Ativo"

\* Outcomes of one BancoUtil.executar call: TRUE = executed and committed,
\* FALSE = sqlite3.Error caught, nothing written, None returned.
Resultados == IF falhas_permitidas > 0 THEN {TRUE, FALSE} ELSE {TRUE}

\* ------------------------------------------------------------ aggregator
\* julianday(x), in seconds instead of fractional days
Julianday(ts) == ts[1] * SegPorDia + ts[2] * SegPorHora + ts[3] * SegPorMin + ts[4]

\* date(x) in SQL, datetime.strptime(x, ...).date() in Python
DateStr(ts) == ts[1]

\* COALESCE(data_hora_final, DATETIME('now', 'localtime'))
Coalesce(fim, now) == IF fim = NULL THEN Strftime(now) ELSE fim

\* the text parses as a timestamp
BemFormado(ts) == Len(ts) = 4

\* Duracao cut at the midnight that follows the start
DuracaoAteMeiaNoite(r, now) ==
    LET fim == Julianday(Coalesce(r.data_hora_final, now))
        meia_noite == (DateStr(r.data_hora) + 1) * SegPorDia
    IN  (IF fim < meia_noite THEN fim ELSE meia_noite) - Julianday(r.data_hora)

\* (julianday(COALESCE(data_hora_final, now)) - julianday(data_hora)), seconds;
\* julianday of a text it cannot parse is NULL and so is the difference
Duracao(r, now) ==
    IF BemFormado(r.data_hora_final) \/ r.data_hora_final = NULL
    THEN Julianday(Coalesce(r.data_hora_final, now)) - Julianday(r.data_hora)
    ELSE NoneNum

\* rows selected by WHERE date(data_hora) = ?
DoDia(tab, dia) == {i \in 1..Len(tab) : DateStr(tab[i].data_hora) = dia}

\* SUM(CASE WHEN status = st THEN duration ELSE 0 END) over rows 1..k of the
\* day; st = "*" sums every row
RECURSIVE SumDur(_, _, _, _, _)
SumDur(tab, k, dia, st, now) ==
    IF k = 0 THEN 0
    ELSE SumDur(tab, k - 1, dia, st, now) +
         (IF /\ k \in DoDia(tab, dia)
             /\ (st = "*" \/ tab[k].status = st)
             /\ Duracao(tab[k], now) /= NoneNum
          THEN Duracao(tab[k], now) ELSE 0)

\* the term of row k under SUM is NULL
TermoNulo(tab, k, st, now) ==
    (st = "*" \/ tab[k].status = st) /\ Duracao(tab[k], now) = NoneNum

\* SUM(...) of SQL: NULL (NoneNum) when no row is selected or every term is
\* NULL; NULL terms are skipped
SqlSum(tab, dia, st, now) ==
    IF \A k \in DoDia(tab, dia) : TermoNulo(tab, k, st, now) THEN NoneNum
    ELSE SumDur(tab, Len(tab), dia, st, now)

\* printf('%02d:%02d', CAST(h AS INTEGER), CAST((h * 60) % 60 AS INTEGER)) of a
\* sum of seconds; a NULL argument prints as 0
PrintfHoras(seg) ==
    IF seg = NoneNum THEN <<0, 0>>
    ELSE <<seg \div SegPorHora, (seg \div SegPorMin) % 60>>

\* RoundPct cutting the third decimal instead of rounding
RoundPctTruncado(a, b) ==
    IF a = NoneNum \/ b = NoneNum \/ b = 0 THEN NoneNum
    ELSE LET inteiro == (100 * a) \div b
             resto == (100 * a) % b
         IN  100 * inteiro + (100 * resto) \div b

\* ROUND(100.0 * a / b, 2) in hundredths of a percent (half away from zero);
\* NULL when an operand is NULL or the divisor is zero
RoundPct(a, b) ==
    IF a = NoneNum \/ b = NoneNum \/ b = 0 THEN NoneNum
    ELSE LET inteiro == (100 * a) \div b
             resto == (100 * a) % b
             centesimos == (100 * resto) \div b
             sobra == (100 * resto) % b
         IN  100 * inteiro + centesimos + (IF 2 * sobra >= b THEN 1 ELSE 0)

\* the SELECT of lines 265-288: the single row of the aggregate query
ConsultaHoras(tab, dia, now) ==
    <<PrintfHoras(SqlSum(tab, dia, "*", now)),
      PrintfHoras(SqlSum(tab, dia, "Ativo", now)),
      PrintfHoras(SqlSum(tab, dia, "Ocioso", now)),
      RoundPct(SqlSum(tab, dia, "Ocioso", now), SqlSum(tab, dia, "*", now))>>

\* the else / except branch of lines 292-300
HorasPadrao == <<<<0, 0>>, <<0, 0>>, <<0, 0>>, 0>>

\* the SELECT of lines 304-307
ConsultaLinhas(tab, now) ==
    [i \in 1..Len(tab) |->
        <<tab[i].status, tab[i].data_hora, Coalesce(tab[i].data_hora_final, now)>>]

\* inicio.hour * 60 + inicio.minute
MinutoDoDia(ts) == ts[2] * 60 + ts[3]

\* Pintar with range(min_inicio, min_fim): the end minute left out
RECURSIVE PintarExclusivo(_, _, _, _)
PintarExclusivo(colors, rs, k, dia) ==
    IF k > Len(rs) THEN colors
    ELSE IF DateStr(rs[k][2]) /= dia THEN PintarExclusivo(colors, rs, k + 1, dia)
    ELSE LET min_inicio == MinutoDoDia(rs[k][2])
             min_fim == MinutoDoDia(rs[k][3])
             cor == IF rs[k][1] = "Ativo" THEN "green" ELSE "red"
         IN  PintarExclusivo([i \in 0..(Slots - 1) |->
                                IF min_inicio <= i /\ i < min_fim THEN cor ELSE colors[i]],
                             rs, k + 1, dia)

\* lines 312-324: one pass of the loop over rows, from row k on
RECURSIVE Pintar(_, _, _, _)
Pintar(colors, rs, k, dia) ==
    IF k > Len(rs) THEN colors
    ELSE IF DateStr(rs[k][2]) /= dia THEN Pintar(colors, rs, k + 1, dia)
    ELSE LET min_inicio == MinutoDoDia(rs[k][2])
             min_fim == MinutoDoDia(rs[k][3])
             cor == IF rs[k][1] = "Ativo" THEN "green" ELSE "red"
         IN  Pintar([i \in 0..(Slots - 1) |->
                        IF min_inicio <= i /\ i < min_fim + 1 THEN cor ELSE colors[i]],
                    rs, k + 1, dia)

\* lines 313-314: datetime.strptime raises ValueError on some row; both
\* timestamps of every row are parsed before the date filter
StrptimeFalha(rs) ==
    \E k \in 1..Len(rs) : ~BemFormado(rs[k][2]) \/ ~BemFormado(rs[k][3])

\* lines 310-329: the colours list handed to the canvas
Colors(rs, dia) ==
    LET pintado == Pintar([i \in 0..(Slots - 1) |-> "gray"], rs, 1, dia)
    IN  [i \in 0..(Slots - 1) |->
            IF i \in InicioExpediente..(FimExpediente - 1) /\ pintado[i] = "gray"
            THEN "lightblue" ELSE pintado[i]]

\* lines 303-336: what the refresh puts on the canvas; when strptime raises,
\* the except branch is reached before any itemconfig and the canvas keeps
\* what it showed (<<>>)
Desenho(rs, dia) == IF StrptimeFalha(rs) THEN <<>> ELSE Colors(rs, dia)

\* ------------------------------------------------------------------ Init
\* the process state right after LogAtividade.__init__
Construido ==
    /\ status_atual = None
    /\ ultimo_app = None
    /\ ultimo_titulo = None
    /\ inicio_app = NULL
    /\ running = TRUE
    /\ data_selecionada = DateOf(clock)
    /\ m_pc = "loop"
    /\ idle = 0
    /\ novo_status = None
    /\ agora = NULL
    /\ amostra_foco = <<None, None>>
    /\ ticks = 0
    /\ u_pc = "idle"
    /\ hoje = 0
    /\ horas = <<>>
    /\ rows = <<>>
    /\ label_status = <<>>
    /\ agendados = 1
    /\ falha_status = FALSE
    /\ lock = Livre
    /\ db_pc = [t \in Threads |-> "fora"]

\* first start on a fresh database; the environment may inject failures and
\* restart the process
Init ==
    /\ clock = ClockInicial
    /\ log_atividade = <<>>
    /\ programas_documentos = <<>>
    /\ falhas_permitidas = MaxFalhas
    /\ reinicios_permitidos = MaxReinicios
    /\ Construido

\* first start on a fresh database, one process lifetime, a store that never
\* fails
InitNominal ==
    /\ clock = ClockInicial
    /\ log_atividade = <<>>
    /\ programas_documentos = <<>>
    /\ falhas_permitidas = 0
    /\ reinicios_permitidos = 0
    /\ Construido

\* rows earlier lifetimes may have left in log_atividade
LinhasDe(instantes) ==
    {[status |-> st, data_hora |-> ini, data_hora_final |-> fim] :
        st \in {"Ativo", "Ocioso"}, ini \in instantes, fim \in instantes \cup {NULL}}

LinhasIniciais == LinhasDe(Instantes)

LinhaValida(r, now) ==
    /\ Julianday(r.data_hora) <= now
    /\ (r.data_hora_final /= NULL /\ BemFormado(r.data_hora_final)) =>
          /\ Julianday(r.data_hora) <= Julianday(r.data_hora_final)
          /\ Julianday(r.data_hora_final) <= now

\* tables of valid rows in insertion order
TabelasDe(linhas, now) ==
    {tab \in UNION {[1..n -> linhas] : n \in 0..MaxLinhasIni} :
        /\ \A i \in 1..Len(tab) : LinhaValida(tab[i], now)
        /\ \A i \in 1..(Len(tab) - 1) :
              Julianday(tab[i].data_hora) <= Julianday(tab[i + 1].data_hora)}

TabelasIniciais(now) == TabelasDe(LinhasIniciais, now)

\* start on a database written by earlier lifetimes, a store that never fails
InitAgg ==
    /\ clock \in {Julianday(t) : t \in Instantes}
    /\ log_atividade \in TabelasIniciais(clock)
    /\ programas_documentos = <<>>
    /\ falhas_permitidas = 0
    /\ reinicios_permitidos = 0
    /\ Construido

\* start on a database whose rows lie around the start of a day, a store that
\* never fails
InitMadrugada ==
    /\ clock \in {Julianday(t) : t \in InstantesMadrugada}
    /\ log_atividade \in TabelasDe(LinhasDe(InstantesMadrugada), clock)
    /\ programas_documentos = <<>>
    /\ falhas_permitidas = 0
    /\ reinicios_permitidos = 0
    /\ Construido

\* rows of a database in which some end timestamp is not a timestamp
LinhasCorrompidas ==
    {[status |-> st, data_hora |-> ini, data_hora_final |-> fim] :
        st \in {"Ativo", "Ocioso"}, ini \in {<<0, 9, 0, 0>>, <<0, 9, 2, 0>>},
        fim \in {<<0, 9, 2, 0>>, NULL, Malformado}}

\* start on a database that holds such rows, a store that never fails
InitCorrompido ==
    /\ clock \in {Julianday(<<0, 9, 2, 0>>), Julianday(<<1, 9, 1, 0>>)}
    /\ log_atividade \in TabelasDe(LinhasCorrompidas, clock)
    /\ programas_documentos = <<>>
    /\ falhas_permitidas = 0
    /\ reinicios_permitidos = 0
    /\ Construido

\* ------------------------------------------------------ monitorar thread
MonitorarAmostraSemParada ==
    /\ m_pc = "loop"
    /\ ticks < MaxTicks
    /\ \E i \in IdleVals :
        /\ idle' = i
        /\ novo_status' = Classificar(i)
        /\ agora' = IF status_atual /= Classificar(i) THEN Strftime(clock) ELSE NULL
        /\ m_pc' = IF status_atual /= Classificar(i)
                   THEN (IF Truthy(status_atual) THEN "update" ELSE "insert")
                   ELSE "foco"
    /\ falha_status' = FALSE
    /\ UNCHANGED <<clock, storeVars, trackerVars, running, amostra_foco, ticks, uiVars,
                   falhas_permitidas, reinicios_permitidos>>
    /\ UNCHANGED lockVars

\* while self.running: status = ...; self.registrar_status(status) up to the
\* comparison with status_atual
MonitorarAmostra ==
    /\ m_pc = "loop"
    /\ running
    /\ ticks < MaxTicks
    /\ \E i \in IdleVals :
        /\ idle' = i
        /\ novo_status' = Classificar(i)
        /\ agora' = IF status_atual /= Classificar(i) THEN Strftime(clock) ELSE NULL
        /\ m_pc' = IF status_atual /= Classificar(i)
                   THEN (IF Truthy(status_atual) THEN "update" ELSE "insert")
                   ELSE "foco"
    /\ falha_status' = FALSE
    /\ UNCHANGED <<clock, storeVars, trackerVars, running, amostra_foco, ticks, uiVars,
                   falhas_permitidas, reinicios_permitidos>>
    /\ UNCHANGED lockVars

\* while self.running: loop exit
MonitorarFim ==
    /\ m_pc = "loop"
    /\ ~running
    /\ m_pc' = "fim"
    /\ UNCHANGED <<clock, storeVars, trackerVars, running, monLocals, ticks, uiVars,
                   falhas_permitidas, falha_status, reinicios_permitidos>>
    /\ UNCHANGED lockVars

\* registrar_status: self.db.executar(UPDATE ...)
RegistrarStatusUpdate ==
    /\ m_pc = "update"
    /\ \E ok \in Resultados :
        /\ log_atividade' = IF ok THEN UpdateStatus(log_atividade, agora, status_atual)
                            ELSE log_atividade
        /\ falhas_permitidas' = IF ok THEN falhas_permitidas ELSE falhas_permitidas - 1
        /\ falha_status' = (falha_status \/ ~ok)
    /\ m_pc' = "insert"
    /\ UNCHANGED <<clock, programas_documentos, trackerVars, running, monLocals, ticks,
                   uiVars, reinicios_permitidos>>
    /\ UNCHANGED lockVars

\* registrar_status: self.db.executar(INSERT ...); self.status_atual = novo_status
RegistrarStatusInsert ==
    /\ m_pc = "insert"
    /\ \E ok \in Resultados :
        /\ log_atividade' = IF ok THEN InsertStatus(log_atividade, novo_status, agora)
                            ELSE log_atividade
        /\ falhas_permitidas' = IF ok THEN falhas_permitidas ELSE falhas_permitidas - 1
        /\ falha_status' = (falha_status \/ ~ok)
    /\ status_atual' = novo_status
    /\ agora' = NULL
    /\ m_pc' = "foco"
    /\ UNCHANGED <<clock, programas_documentos, ultimo_app, ultimo_titulo, inicio_app,
                   running, idle, novo_status, amostra_foco, ticks, uiVars,
                   reinicios_permitidos>>
    /\ UNCHANGED lockVars

\* registrar_programa(app, titulo), one critical section of BancoUtil._lock.
\* falha = 0: both statements and the commit succeed; falha = 1: the UPDATE
\* raises; falha = 2: the INSERT raises after the UPDATE was executed on the
\* shared connection.  sqlite3.Error is not caught here nor in monitorar.
RegistrarPrograma(app, titulo, falha) ==
    LET ts == Strftime(clock)
        fecha == Truthy(ultimo_app) /\ TruthyTs(inicio_app)
        fechada == IF fecha
                   THEN UpdatePrograma(programas_documentos, ts, ultimo_app,
                                       ultimo_titulo, inicio_app)
                   ELSE programas_documentos
    IN  /\ falha = 1 => fecha
        /\ programas_documentos' =
              CASE falha = 0 -> InsertPrograma(fechada, app, titulo, ts)
                [] falha = 1 -> programas_documentos
                [] falha = 2 -> fechada
        /\ IF falha = 0
           THEN /\ ultimo_app' = app
                /\ ultimo_titulo' = titulo
                /\ inicio_app' = ts
                /\ m_pc' = "sleep"
                /\ falhas_permitidas' = falhas_permitidas
           ELSE /\ UNCHANGED <<ultimo_app, ultimo_titulo, inicio_app>>
                /\ m_pc' = "morto"
                /\ falhas_permitidas' = falhas_permitidas - 1

\* MonitorarFoco without the comparison with the last pair
MonitorarFocoSempre ==
    /\ m_pc = "foco"
    /\ \E f \in Focos :
        /\ amostra_foco' = f
        /\ \E falha \in (IF falhas_permitidas > 0 THEN {0, 1, 2} ELSE {0}) :
                RegistrarPrograma(f[1], f[2], falha)
    /\ falha_status' = FALSE
    /\ UNCHANGED <<clock, log_atividade, status_atual, running, idle, novo_status, agora,
                   ticks, uiVars, reinicios_permitidos>>
    /\ UNCHANGED lockVars

\* app, titulo = self.get_focused_app(); if changed: self.registrar_programa(...)
MonitorarFoco ==
    /\ m_pc = "foco"
    /\ \E f \in Focos :
        /\ amostra_foco' = f
        /\ IF f[1] /= ultimo_app \/ f[2] /= ultimo_titulo
           THEN \E falha \in (IF falhas_permitidas > 0 THEN {0, 1, 2} ELSE {0}) :
                   RegistrarPrograma(f[1], f[2], falha)
           ELSE /\ m_pc' = "sleep"
                /\ UNCHANGED <<programas_documentos, ultimo_app, ultimo_titulo,
                               inicio_app, falhas_permitidas>>
    /\ falha_status' = FALSE
    /\ UNCHANGED <<clock, log_atividade, status_atual, running, idle, novo_status, agora,
                   ticks, uiVars, reinicios_permitidos>>
    /\ UNCHANGED lockVars

\* time.sleep(self.intervalo_cheque): the wall clock advances while the
\* thread sleeps; app and titulo are not read again before the next sample
MonitorarSleep ==
    /\ m_pc = "sleep"
    /\ m_pc' = "loop"
    /\ ticks' = ticks + 1
    /\ clock' = clock + intervalo_cheque
    /\ amostra_foco' = <<None, None>>
    /\ UNCHANGED <<storeVars, trackerVars, running, idle, novo_status, agora, uiVars,
                   falhas_permitidas, falha_status, reinicios_permitidos>>
    /\ UNCHANGED lockVars

\* --------------------------------------------------------------- Tk thread
\* atualizar_canvas, first part: hoje = self.data_selecionada and the totals
\* query through executar (a failed query returns None: default values)
AtualizarCanvasHoras(dia) ==
    /\ hoje' = dia
    /\ \E ok \in Resultados :
        /\ horas' = IF ok THEN ConsultaHoras(log_atividade, dia, clock) ELSE HorasPadrao
        /\ falhas_permitidas' = IF ok THEN falhas_permitidas ELSE falhas_permitidas - 1
    /\ u_pc' = "timeline"

\* the timer set by root.after(1000, self.atualizar_canvas) fires
AtualizarCanvasTimer ==
    /\ u_pc = "idle"
    /\ running
    /\ agendados > 0
    /\ agendados' = agendados - 1
    /\ AtualizarCanvasHoras(data_selecionada)
    /\ UNCHANGED <<clock, storeVars, trackerVars, running, m_pc, monLocals, ticks,
                   rows, label_status, data_selecionada, falha_status, reinicios_permitidos>>
    /\ UNCHANGED lockVars

\* set_data(nova_data): self.data_selecionada = nova_data; self.atualizar_canvas()
\* (a direct call on the Tk thread: no pending timer is consumed)
SetData(nova_data) ==
    /\ u_pc = "idle"
    /\ running
    /\ agendados < MaxAgendados
    /\ nova_data \in Dias
    /\ data_selecionada' = nova_data
    /\ AtualizarCanvasHoras(nova_data)
    /\ UNCHANGED <<clock, storeVars, trackerVars, running, m_pc, monLocals, ticks,
                   rows, label_status, agendados, falha_status, reinicios_permitidos>>
    /\ UNCHANGED lockVars

DiaHoje == SetData(DateOf(clock))

DiaAnterior == SetData(data_selecionada - 1)

DiaProximo == SetData(data_selecionada + 1)

\* on_data_selecionada: self.data_selecionada = self.cal.get_date();
\* self.atualizar_canvas(), the date being the one picked in the calendar
OnDataSelecionada == \E d \in Dias : SetData(d)

\* atualizar_canvas, second part: the rows query through executar
\* (a failed query gives `or []`)
AtualizarCanvasLinhas ==
    /\ u_pc = "timeline"
    /\ \E ok \in Resultados :
        /\ rows' = IF ok THEN ConsultaLinhas(log_atividade, clock) ELSE <<>>
        /\ falhas_permitidas' = IF ok THEN falhas_permitidas ELSE falhas_permitidas - 1
    /\ u_pc' = "desenha"
    /\ UNCHANGED <<clock, storeVars, trackerVars, running, m_pc, monLocals, ticks,
                   hoje, horas, label_status, agendados, data_selecionada,
                   falha_status, reinicios_permitidos>>
    /\ UNCHANGED lockVars

\* atualizar_canvas, last part: the canvas takes Colors(rows, hoje), the label
\* takes the totals, the next refresh is scheduled and the locals go away
AtualizarCanvasDesenha ==
    /\ u_pc = "desenha"
    /\ label_status' = horas
    /\ agendados' = agendados + 1
    /\ hoje' = 0
    /\ horas' = <<>>
    /\ rows' = <<>>
    /\ u_pc' = "idle"
    /\ UNCHANGED <<clock, storeVars, trackerVars, running, m_pc, monLocals, ticks,
                   data_selecionada, falhas_permitidas, falha_status, reinicios_permitidos>>
    /\ UNCHANGED lockVars

\* sair: self.running = False; self.tray_icon.stop(); self.root.destroy()
Sair ==
    /\ running
    /\ running' = FALSE
    /\ u_pc' = "fim"
    /\ agendados' = 0
    /\ hoje' = 0
    /\ horas' = <<>>
    /\ rows' = <<>>
    /\ UNCHANGED <<clock, storeVars, trackerVars, m_pc, monLocals, ticks, label_status,
                   data_selecionada, falhas_permitidas, falha_status, reinicios_permitidos>>
    /\ UNCHANGED lockVars

\* the process has exited (mainloop returned, daemon threads dropped wherever
\* they were) and the program is started again on the same database file:
\* LogAtividade.__init__
Reiniciar ==
    /\ ~running
    /\ reinicios_permitidos > 0
    /\ reinicios_permitidos' = reinicios_permitidos - 1
    /\ status_atual' = None
    /\ ultimo_app' = None
    /\ ultimo_titulo' = None
    /\ inicio_app' = NULL
    /\ running' = TRUE
    /\ data_selecionada' = DateOf(clock)
    /\ m_pc' = "loop"
    /\ idle' = 0
    /\ novo_status' = None
    /\ agora' = NULL
    /\ amostra_foco' = <<None, None>>
    /\ u_pc' = "idle"
    /\ hoje' = 0
    /\ horas' = <<>>
    /\ rows' = <<>>
    /\ label_status' = <<>>
    /\ agendados' = 1
    /\ falha_status' = FALSE
    /\ lock' = Livre
    /\ db_pc' = [t \in Threads |-> "fora"]
    /\ UNCHANGED <<clock, storeVars, ticks, falhas_permitidas>>

\* ------------------------------------- the same calls, one step per statement
\* BancoUtil() in __init__, before the monitor thread is started and before
\* the first refresh is scheduled; the store may fail
InitLock ==
    /\ clock = ClockInicial
    /\ log_atividade = <<>>
    /\ programas_documentos = <<>>
    /\ falhas_permitidas = MaxFalhas
    /\ reinicios_permitidos = 0
    /\ status_atual = None
    /\ ultimo_app = None
    /\ ultimo_titulo = None
    /\ inicio_app = NULL
    /\ running = TRUE
    /\ data_selecionada = DateOf(clock)
    /\ m_pc = "nao_iniciado"
    /\ idle = 0
    /\ novo_status = None
    /\ agora = NULL
    /\ amostra_foco = <<None, None>>
    /\ ticks = 0
    /\ u_pc = "criar_tabelas"
    /\ hoje = 0
    /\ horas = <<>>
    /\ rows = <<>>
    /\ label_status = <<>>
    /\ agendados = 0
    /\ falha_status = FALSE
    /\ lock = Livre
    /\ db_pc = [t \in Threads |-> "fora"]

\* criar_tabelas: with BancoUtil._lock
CriarTabelasAcquire ==
    /\ u_pc = "criar_tabelas"
    /\ db_pc["tk"] = "fora"
    /\ lock = Livre
    /\ lock' = "tk"
    /\ db_pc' = [db_pc EXCEPT !["tk"] = "c_execute"]
    /\ UNCHANGED <<clock, storeVars, trackerVars, running, m_pc, monLocals, ticks, uiVars,
                   falhas_permitidas, falha_status, reinicios_permitidos>>

\* criar_tabelas: the two CREATE TABLE IF NOT EXISTS; sqlite3.Error leaves
\* the with block
CriarTabelasExecute ==
    /\ db_pc["tk"] = "c_execute"
    /\ \E ok \in Resultados :
        /\ db_pc' = [db_pc EXCEPT !["tk"] = IF ok THEN "c_commit" ELSE "c_erro"]
        /\ falhas_permitidas' = IF ok THEN falhas_permitidas ELSE falhas_permitidas - 1
    /\ UNCHANGED <<clock, storeVars, trackerVars, running, m_pc, monLocals, ticks, uiVars,
                   falha_status, reinicios_permitidos, lock>>

\* criar_tabelas: self.conn.commit()
CriarTabelasCommit ==
    /\ db_pc["tk"] = "c_commit"
    /\ db_pc' = [db_pc EXCEPT !["tk"] = "c_release"]
    /\ UNCHANGED <<clock, storeVars, trackerVars, running, m_pc, monLocals, ticks, uiVars,
                   falhas_permitidas, falha_status, reinicios_permitidos, lock>>

\* criar_tabelas: the with block is left; then the rest of __init__ starts the
\* monitor thread and schedules the first refresh, or the error is raised
\* again and the program ends
CriarTabelasRelease ==
    /\ db_pc["tk"] \in {"c_release", "c_erro"}
    /\ lock' = Livre
    /\ db_pc' = [db_pc EXCEPT !["tk"] = "fora"]
    /\ IF db_pc["tk"] = "c_release"
       THEN /\ m_pc' = "loop"
            /\ u_pc' = "idle"
            /\ agendados' = 1
            /\ running' = running
       ELSE /\ m_pc' = m_pc
            /\ u_pc' = "fim"
            /\ agendados' = agendados
            /\ running' = FALSE
    /\ UNCHANGED <<clock, storeVars, trackerVars, monLocals, ticks, hoje, horas, rows,
                   label_status, data_selecionada, falhas_permitidas, falha_status,
                   reinicios_permitidos>>

\* thread t is at a call of self.db.executar
ChamaExecutar(t) ==
    IF t = "monitor" THEN m_pc \in {"update", "insert"} ELSE u_pc \in {"horas", "timeline"}

\* ExecutarAcquire that does not wait for the lock
ExecutarAcquireSemEspera(t) ==
    /\ ChamaExecutar(t)
    /\ db_pc[t] = "fora"
    /\ lock' = t
    /\ db_pc' = [db_pc EXCEPT ![t] = "execute"]
    /\ UNCHANGED <<clock, storeVars, trackerVars, running, m_pc, monLocals, ticks, uiVars,
                   falhas_permitidas, falha_status, reinicios_permitidos>>

\* executar: with BancoUtil._lock
ExecutarAcquire(t) ==
    /\ ChamaExecutar(t)
    /\ db_pc[t] = "fora"
    /\ lock = Livre
    /\ lock' = t
    /\ db_pc' = [db_pc EXCEPT ![t] = "execute"]
    /\ UNCHANGED <<clock, storeVars, trackerVars, running, m_pc, monLocals, ticks, uiVars,
                   falhas_permitidas, falha_status, reinicios_permitidos>>

\* executar: self.cursor.execute(query, params); sqlite3.Error leaves the with
\* block
ExecutarExecute(t) ==
    /\ db_pc[t] = "execute"
    /\ \E ok \in Resultados :
        /\ log_atividade' =
              IF ok /\ t = "monitor" /\ m_pc = "update"
              THEN UpdateStatus(log_atividade, agora, status_atual)
              ELSE IF ok /\ t = "monitor" /\ m_pc = "insert"
              THEN InsertStatus(log_atividade, novo_status, agora)
              ELSE log_atividade
        /\ db_pc' = [db_pc EXCEPT ![t] = IF ok THEN "commit" ELSE "erro"]
        /\ falhas_permitidas' = IF ok THEN falhas_permitidas ELSE falhas_permitidas - 1
        /\ falha_status' = (falha_status \/ (t = "monitor" /\ ~ok))
    /\ UNCHANGED <<clock, programas_documentos, trackerVars, running, m_pc, monLocals,
                   ticks, uiVars, reinicios_permitidos, lock>>

\* executar: self.conn.commit()
ExecutarCommit(t) ==
    /\ db_pc[t] = "commit"
    /\ db_pc' = [db_pc EXCEPT ![t] = "retorno"]
    /\ UNCHANGED <<clock, storeVars, trackerVars, running, m_pc, monLocals, ticks, uiVars,
                   falhas_permitidas, falha_status, reinicios_permitidos, lock>>

\* executar: return self.cursor.fetchall() (the two SELECTs of
\* atualizar_canvas) or return self.cursor.lastrowid
ExecutarRetorno(t) ==
    /\ db_pc[t] = "retorno"
    /\ db_pc' = [db_pc EXCEPT ![t] = "release"]
    /\ horas' = IF t = "tk" /\ u_pc = "horas"
                THEN ConsultaHoras(log_atividade, hoje, clock) ELSE horas
    /\ rows' = IF t = "tk" /\ u_pc = "timeline"
               THEN ConsultaLinhas(log_atividade, clock) ELSE rows
    /\ UNCHANGED <<clock, storeVars, trackerVars, running, m_pc, monLocals, ticks, u_pc,
                   hoje, label_status, agendados, data_selecionada, falhas_permitidas,
                   falha_status, reinicios_permitidos, lock>>

\* executar: the with block is left, normally or by the exception (which the
\* except clause turns into None); the caller goes on
ExecutarRelease(t) ==
    /\ db_pc[t] \in {"release", "erro"}
    /\ lock' = Livre
    /\ db_pc' = [db_pc EXCEPT ![t] = "fora"]
    /\ m_pc' = IF t = "monitor" THEN (IF m_pc = "update" THEN "insert" ELSE "foco") ELSE m_pc
    /\ status_atual' = IF t = "monitor" /\ m_pc = "insert" THEN novo_status ELSE status_atual
    /\ agora' = IF t = "monitor" /\ m_pc = "insert" THEN NULL ELSE agora
    /\ u_pc' = IF t = "tk" THEN (IF u_pc = "horas" THEN "timeline" ELSE "desenha") ELSE u_pc
    /\ horas' = IF t = "tk" /\ u_pc = "horas" /\ db_pc[t] = "erro" THEN HorasPadrao ELSE horas
    /\ rows' = IF t = "tk" /\ u_pc = "timeline" /\ db_pc[t] = "erro" THEN <<>> ELSE rows
    /\ UNCHANGED <<clock, storeVars, ultimo_app, ultimo_titulo, inicio_app, running, idle,
                   novo_status, amostra_foco, ticks, hoje, label_status, agendados,
                   data_selecionada, falhas_permitidas, falha_status, reinicios_permitidos>>

\* the refresh timer fires: hoje = self.data_selecionada, up to the first
\* call of executar
AtualizarCanvasInicio ==
    /\ u_pc = "idle"
    /\ running
    /\ agendados > 0
    /\ agendados' = agendados - 1
    /\ hoje' = data_selecionada
    /\ u_pc' = "horas"
    /\ UNCHANGED <<clock, storeVars, trackerVars, running, m_pc, monLocals, ticks, horas,
                   rows, label_status, data_selecionada, falhas_permitidas, falha_status,
                   reinicios_permitidos, lockVars>>

\* monitorar: app, titulo = self.get_focused_app() and the comparison
MonitorarFocoAmostra ==
    /\ m_pc = "foco"
    /\ \E f \in Focos :
        /\ amostra_foco' = f
        /\ m_pc' = IF f[1] /= ultimo_app \/ f[2] /= ultimo_titulo THEN "programa" ELSE "sleep"
    /\ falha_status' = FALSE
    /\ UNCHANGED <<clock, storeVars, trackerVars, running, idle, novo_status, agora, ticks,
                   uiVars, falhas_permitidas, reinicios_permitidos, lockVars>>

\* registrar_programa: with BancoUtil._lock, and the test of line 361
ProgramaAcquire ==
    /\ m_pc = "programa"
    /\ db_pc["monitor"] = "fora"
    /\ lock = Livre
    /\ lock' = "monitor"
    /\ db_pc' = [db_pc EXCEPT !["monitor"] =
                    IF Truthy(ultimo_app) /\ TruthyTs(inicio_app) THEN "p_update" ELSE "p_insert"]
    /\ UNCHANGED <<clock, storeVars, trackerVars, running, m_pc, monLocals, ticks, uiVars,
                   falhas_permitidas, falha_status, reinicios_permitidos>>

\* registrar_programa: cursor.execute(UPDATE ...)
ProgramaUpdate ==
    /\ db_pc["monitor"] = "p_update"
    /\ \E ok \in Resultados :
        /\ programas_documentos' =
              IF ok THEN UpdatePrograma(programas_documentos, Strftime(clock), ultimo_app,
                                        ultimo_titulo, inicio_app)
              ELSE programas_documentos
        /\ db_pc' = [db_pc EXCEPT !["monitor"] = IF ok THEN "p_insert" ELSE "p_erro"]
        /\ falhas_permitidas' = IF ok THEN falhas_permitidas ELSE falhas_permitidas - 1
    /\ UNCHANGED <<clock, log_atividade, trackerVars, running, m_pc, monLocals, ticks,
                   uiVars, falha_status, reinicios_permitidos, lock>>

\* registrar_programa: cursor.execute(INSERT ...)
ProgramaInsert ==
    /\ db_pc["monitor"] = "p_insert"
    /\ \E ok \in Resultados :
        /\ programas_documentos' =
              IF ok THEN InsertPrograma(programas_documentos, amostra_foco[1],
                                        amostra_foco[2], Strftime(clock))
              ELSE programas_documentos
        /\ db_pc' = [db_pc EXCEPT !["monitor"] = IF ok THEN "p_commit" ELSE "p_erro"]
        /\ falhas_permitidas' = IF ok THEN falhas_permitidas ELSE falhas_permitidas - 1
    /\ UNCHANGED <<clock, log_atividade, trackerVars, running, m_pc, monLocals, ticks,
                   uiVars, falha_status, reinicios_permitidos, lock>>

\* registrar_programa: self.db.conn.commit()
ProgramaCommit ==
    /\ db_pc["monitor"] = "p_commit"
    /\ db_pc' = [db_pc EXCEPT !["monitor"] = "p_release"]
    /\ UNCHANGED <<clock, storeVars, trackerVars, running, m_pc, monLocals, ticks, uiVars,
                   falhas_permitidas, falha_status, reinicios_permitidos, lock>>

\* registrar_programa: the with block is left; normally the tracker takes
\* the new pair, on sqlite3.Error the exception ends the thread
ProgramaRelease ==
    /\ db_pc["monitor"] \in {"p_release", "p_erro"}
    /\ lock' = Livre
    /\ db_pc' = [db_pc EXCEPT !["monitor"] = "fora"]
    /\ IF db_pc["monitor"] = "p_release"
       THEN /\ ultimo_app' = amostra_foco[1]
            /\ ultimo_titulo' = amostra_foco[2]
            /\ inicio_app' = Strftime(clock)
            /\ m_pc' = "sleep"
       ELSE /\ UNCHANGED <<ultimo_app, ultimo_titulo, inicio_app>>
            /\ m_pc' = "morto"
    /\ UNCHANGED <<clock, storeVars, status_atual, running, monLocals, ticks, uiVars,
                   falhas_permitidas, falha_status, reinicios_permitidos>>

Next ==
    \/ MonitorarAmostra
    \/ MonitorarFim
    \/ RegistrarStatusUpdate
    \/ RegistrarStatusInsert
    \/ MonitorarFoco
    \/ MonitorarSleep
    \/ AtualizarCanvasTimer
    \/ AtualizarCanvasLinhas
    \/ AtualizarCanvasDesenha
    \/ Sair
    \/ Reiniciar

\* the program: poll loop, periodic refresh, shutdown and restart
Spec == Init /\ [][Next]_vars

NextRastreador ==
    \/ MonitorarAmostra
    \/ MonitorarFim
    \/ RegistrarStatusUpdate
    \/ RegistrarStatusInsert
    \/ MonitorarFoco
    \/ MonitorarSleep
    \/ Sair
    \/ Reiniciar

\* the writers of the store: poll loop, shutdown and restart, with storage
\* failures (atualizar_canvas only reads the store)
SpecRastreador == Init /\ [][NextRastreador]_vars

NextNominal ==
    \/ MonitorarAmostra
    \/ RegistrarStatusUpdate
    \/ RegistrarStatusInsert
    \/ MonitorarFoco
    \/ MonitorarSleep

\* the poll loop alone, one lifetime, no storage failure
SpecNominal == InitNominal /\ [][NextNominal]_vars

NextAgg ==
    \/ AtualizarCanvasTimer
    \/ AtualizarCanvasLinhas
    \/ AtualizarCanvasDesenha
    \/ DiaHoje
    \/ DiaAnterior
    \/ DiaProximo
    \/ OnDataSelecionada

\* the refresh and the date navigation over a database found at start-up
SpecAgg == InitAgg /\ [][NextAgg]_vars
\* first start on a fresh database, one process lifetime, a store that may fail
InitDesligar ==
    /\ clock = ClockInicial
    /\ log_atividade = <<>>
    /\ programas_documentos = <<>>
    /\ falhas_permitidas = MaxFalhas
    /\ reinicios_permitidos = 0
    /\ Construido

\* one step of the thread running monitorar
Monitorar ==
    \/ MonitorarAmostra
    \/ MonitorarFim
    \/ RegistrarStatusUpdate
    \/ RegistrarStatusInsert
    \/ MonitorarFoco
    \/ MonitorarSleep

NextDesligar ==
    \/ MonitorarAmostra
    \/ MonitorarFim
    \/ RegistrarStatusUpdate
    \/ RegistrarStatusInsert
    \/ MonitorarFoco
    \/ MonitorarSleep
    \/ Sair

\* the poll loop and the shutdown request; the thread running monitorar keeps
\* being scheduled and each of its calls returns
SpecDesligar == InitDesligar /\ [][NextDesligar]_vars /\ WF_vars(Monitorar)
\* the refresh and the date navigation over a database with unparseable end
\* timestamps
SpecCorrompido == InitCorrompido /\ [][NextAgg]_vars

\* the refresh and the date navigation over a database whose rows lie around
\* the start of a day
SpecMadrugada == InitMadrugada /\ [][NextAgg]_vars
NextLock ==
    \/ CriarTabelasAcquire
    \/ CriarTabelasExecute
    \/ CriarTabelasCommit
    \/ CriarTabelasRelease
    \/ MonitorarAmostra
    \/ \E t \in Threads : ExecutarAcquire(t)
    \/ \E t \in Threads : ExecutarExecute(t)
    \/ \E t \in Threads : ExecutarCommit(t)
    \/ \E t \in Threads : ExecutarRetorno(t)
    \/ \E t \in Threads : ExecutarRelease(t)
    \/ MonitorarFocoAmostra
    \/ ProgramaAcquire
    \/ ProgramaUpdate
    \/ ProgramaInsert
    \/ ProgramaCommit
    \/ ProgramaRelease
    \/ MonitorarSleep
    \/ AtualizarCanvasInicio
    \/ AtualizarCanvasDesenha

\* start-up, poll loop and periodic refresh with every step taken inside a
\* `with BancoUtil._lock` as a step of its own
SpecLock == InitLock /\ [][NextLock]_vars
\* ================================================================ claims
\* ids of the open rows of a table
Abertas(tab) == {i \in 1..Len(tab) : tab[i].data_hora_final = NULL}

\* the poll loop is between two ticks
EntreTicks == m_pc \in {"sleep", "loop"}

\* C1: in one process lifetime on a fresh database and without storage
\* failures, log_atividade holds at most one open row after every poll tick.
C1_UmaAbertaStatus == EntreTicks => Cardinality(Abertas(log_atividade)) <= 1

\* a tick has closed one status interval and left exactly one open
C1_Witness ==
    /\ EntreTicks
    /\ Len(log_atividade) >= 2
    /\ Cardinality(Abertas(log_atividade)) = 1

\* C2: for any sequence of focus samples, (None, None) included,
\* programas_documentos holds at most one open row after every poll tick.
C2_UmaAbertaFoco == EntreTicks => Cardinality(Abertas(programas_documentos)) <= 1

\* the threshold classification of the last idle sample, written out
StatusDaAmostra == IF idle >= LIMITE_OCIOSO THEN "Ocioso" ELSE "Ativo"

\* C4: in one process lifetime without storage failures the status rows in
\* start order chain without gap or overlap (each closed row ends where the
\* next one starts), only the last row is open, and the open row carries the
\* threshold classification of the sample just taken.
C4_Particao ==
    (m_pc \in {"foco", "sleep", "loop"}) =>
        /\ \A i \in 1..(Len(log_atividade) - 1) :
              /\ log_atividade[i].data_hora_final /= NULL
              /\ log_atividade[i].data_hora_final = log_atividade[i + 1].data_hora
              /\ Julianday(log_atividade[i].data_hora)
                    <= Julianday(log_atividade[i].data_hora_final)
        /\ Len(log_atividade) > 0 =>
              /\ log_atividade[Len(log_atividade)].data_hora_final = NULL
              /\ log_atividade[Len(log_atividade)].status = StatusDaAmostra

\* three chained status intervals after two transitions, the last on an
\* active sample
C4_Witness ==
    /\ m_pc = "sleep"
    /\ Len(log_atividade) = 3
    /\ log_atividade[2].data_hora_final = log_atividade[3].data_hora
    /\ log_atividade[2].data_hora /= log_atividade[3].data_hora
    /\ idle = 0
\* a step in which atualizar_canvas reads log_atividade (either query)
LeituraCanvas ==
    \/ u_pc = "idle" /\ u_pc' = "timeline"
    \/ u_pc = "timeline" /\ u_pc' = "desenha"

\* no failure has been injected and the process was never restarted
SemFalhaNemReinicio ==
    falhas_permitidas = MaxFalhas /\ reinicios_permitidos = MaxReinicios

\* C3: no read of atualizar_canvas sees the status series with the previous
\* interval closed and its successor not yet inserted (a series that has
\* rows but no open row, in a run without failure or restart).
C3_LeituraAtomica ==
    [][(LeituraCanvas /\ SemFalhaNemReinicio /\ log_atividade /= <<>>)
          => Abertas(log_atividade) /= {}]_vars

\* C5: when executar fails for the UPDATE or the INSERT of a status
\* transition, registrar_status returns with status_atual not advanced.
C5_EstadoNaoAvanca ==
    [][(m_pc = "insert" /\ m_pc' = "foco" /\ falha_status')
          => status_atual' = status_atual]_vars

\* C6: no storage failure ends the poll loop: while running is true the
\* monitorar thread has not been terminated by an exception.
C6_LoopSobrevive == running => m_pc /= "morto"

\* the rows of a table are kept by a step: none deleted, attributes and start
\* unchanged, an end once set unchanged
Preservada(antes, depois) ==
    /\ Len(depois) >= Len(antes)
    /\ \A i \in 1..Len(antes) :
          /\ \A campo \in (DOMAIN antes[i]) \ {"data_hora_final"} :
                depois[i][campo] = antes[i][campo]
          /\ antes[i].data_hora_final /= NULL =>
                depois[i].data_hora_final = antes[i].data_hora_final

\* C10: no step deletes a row of either table, changes the status, program,
\* document or start of a row, or changes an end that is already set.
C10_Imutavel ==
    [][/\ Preservada(log_atividade, log_atividade')
       /\ Preservada(programas_documentos, programas_documentos')]_vars

\* both tables hold a closed row followed by a later row
C10_Witness ==
    /\ Len(log_atividade) >= 2
    /\ log_atividade[1].data_hora_final /= NULL
    /\ Len(programas_documentos) >= 2
    /\ programas_documentos[1].data_hora_final /= NULL
\* atualizar_canvas holds the result of the totals query
TotaisLidos == u_pc \in {"timeline", "desenha"}

\* C7: for a selected day whose total duration is zero (no status interval
\* starts on it, or only empty ones) the totals are "00:00" three times and
\* the idle percentage is the number 0.
C7_DiaVazio ==
    (TotaisLidos /\ SumDur(log_atividade, Len(log_atividade), hoje, "*", clock) = 0)
        => horas = <<<<0, 0>>, <<0, 0>>, <<0, 0>>, 0>>

\* the fill of a slot no interval touches
Padrao(i) ==
    IF InicioExpediente <= i /\ i < FimExpediente THEN "lightblue" ELSE "gray"

\* rows of the snapshot that start on the selected day
LinhasDoDia == {i \in 1..Len(rows) : DateStr(rows[i][2]) = hoje}

\* the selected day has exactly one status interval, closed on the same day
UmIntervaloFechado(i) ==
    /\ u_pc = "desenha"
    /\ Len(rows) = Len(log_atividade)
    /\ LinhasDoDia = {i}
    /\ log_atividade[i].data_hora_final /= NULL
    /\ DateStr(rows[i][3]) = hoje

CorDe(st) == IF st = "Ativo" THEN "green" ELSE "red"

\* C8 as stated: a closed interval from minute s to minute e of the selected
\* day, the only one of that day, colours slots s..e-1 and no others, every
\* other slot keeping the default fill.
C8_GradeExclusiva ==
    \A i \in 1..Len(rows) :
        UmIntervaloFechado(i) =>
            LET colors == Colors(rows, hoje)
                s == MinutoDoDia(rows[i][2])
                e == MinutoDoDia(rows[i][3])
            IN  \A x \in 0..(Slots - 1) :
                    colors[x] = IF s <= x /\ x < e THEN CorDe(rows[i][1]) ELSE Padrao(x)

\* C8 amended: such an interval colours slots s..e, the end minute included,
\* and no others (Active 09:00-09:02 colours 540, 541 and 542).
C8_GradeInclusiva ==
    \A i \in 1..Len(rows) :
        UmIntervaloFechado(i) =>
            LET colors == Colors(rows, hoje)
                s == MinutoDoDia(rows[i][2])
                e == MinutoDoDia(rows[i][3])
            IN  \A x \in 0..(Slots - 1) :
                    colors[x] = IF s <= x /\ x <= e THEN CorDe(rows[i][1]) ELSE Padrao(x)

\* the grid is being drawn for a day whose only interval is Active 09:00-09:02
C8_Witness ==
    \E i \in 1..Len(rows) :
        /\ UmIntervaloFechado(i)
        /\ rows[i] = <<"Ativo", <<0, 9, 0, 0>>, <<0, 9, 2, 0>>>>

\* HH:MM of a number of seconds, seconds dropped
HHMM(seg) == <<seg \div SegPorHora, (seg \div SegPorMin) % 60>>

\* end of row i, "now" for an open row, in seconds
FimEfetivo(i) ==
    IF log_atividade[i].data_hora_final = NULL THEN clock
    ELSE Julianday(log_atividade[i].data_hora_final)

\* row i starts on day d and ends, or is still open, on day d + 1
CruzaMeiaNoite(i, d) ==
    /\ DateStr(log_atividade[i].data_hora) = d
    /\ FimEfetivo(i) \div SegPorDia = d + 1

\* the three totals when the selected day's only row i counts for seg seconds
TotaisDe(i, seg) ==
    /\ horas[1] = HHMM(seg)
    /\ horas[2] = IF log_atividade[i].status = "Ativo" THEN HHMM(seg) ELSE <<0, 0>>
    /\ horas[3] = IF log_atividade[i].status = "Ocioso" THEN HHMM(seg) ELSE <<0, 0>>

\* nothing starts on the selected day, an interval begun the day before runs
\* into it, and the totals are all "00:00"
NadaNoDiaSeguinte ==
    (/\ TotaisLidos
     /\ DoDia(log_atividade, hoje) = {}
     /\ \E k \in 1..Len(log_atividade) : CruzaMeiaNoite(k, hoje - 1))
        => /\ horas[1] = <<0, 0>>
           /\ horas[2] = <<0, 0>>
           /\ horas[3] = <<0, 0>>

\* C9 as stated: an interval that starts on day D and ends (or is open) on
\* D+1 adds to D's totals only the seconds up to midnight, and nothing to D+1.
C9_AteMeiaNoite ==
    /\ \A i \in 1..Len(log_atividade) :
          (TotaisLidos /\ DoDia(log_atividade, hoje) = {i} /\ CruzaMeiaNoite(i, hoje))
              => TotaisDe(i, (hoje + 1) * SegPorDia - Julianday(log_atividade[i].data_hora))
    /\ NadaNoDiaSeguinte

\* C9 amended: such an interval adds its whole duration, the part after
\* midnight included, to D's totals, and nothing to D+1.
C9_DuracaoInteira ==
    /\ \A i \in 1..Len(log_atividade) :
          (TotaisLidos /\ DoDia(log_atividade, hoje) = {i} /\ CruzaMeiaNoite(i, hoje))
              => TotaisDe(i, FimEfetivo(i) - Julianday(log_atividade[i].data_hora))
    /\ NadaNoDiaSeguinte

\* the totals were read for a day whose only interval runs past midnight
C9_Witness ==
    /\ TotaisLidos
    /\ \E i \in 1..Len(log_atividade) :
          /\ DoDia(log_atividade, hoje) = {i}
          /\ CruzaMeiaNoite(i, hoje)
          /\ FimEfetivo(i) > (hoje + 1) * SegPorDia + SegPorMin
\* ids of the rows whose end a step sets
FechadasNoPasso(antes, depois) ==
    {i \in 1..Len(antes) :
        antes[i].data_hora_final = NULL /\ depois[i].data_hora_final /= NULL}

\* C11: every close sets the end of at most one interval of its series (the
\* one the tracker itself opened); a status transition after a restart does
\* not close an interval left open by the previous lifetime together with
\* the current one.
C11_FechaSoUm ==
    [][/\ Cardinality(FechadasNoPasso(log_atividade, log_atividade')) <= 1
       /\ Cardinality(FechadasNoPasso(programas_documentos, programas_documentos')) <= 1]_vars
\* C12: once sair has set running to false the poll loop starts no new tick,
\* and the loop eventually terminates (it leaves the while, or the thread
\* ends on an exception of registrar_programa).
C12_Desligamento ==
    /\ [][(m_pc = "loop" /\ m_pc' \notin {"loop", "fim"}) => running]_vars
    /\ (~running ~> m_pc \in {"fim", "morto"})

C12_Witness == ~running /\ m_pc = "fim" /\ ticks >= 1
\* seconds of rows 1..k of log_atividade that start on the day being
\* aggregated and have status st ("*": any), an open row counting up to now
RECURSIVE SegundosDoDia(_, _)
SegundosDoDia(k, st) ==
    IF k = 0 THEN 0
    ELSE SegundosDoDia(k - 1, st) +
         (IF /\ DateStr(log_atividade[k].data_hora) = hoje
             /\ (st = "*" \/ log_atividade[k].status = st)
          THEN FimEfetivo(k) - Julianday(log_atividade[k].data_hora) ELSE 0)

\* p hundredths of a percent is 100 * i / t rounded to two decimals, half
\* away from zero: -t <= 2 * (10000 * i - p * t) < t
Arredondado(p, i, t) ==
    /\ p \in 0..10000
    /\ LET resto == 100 * i - (p \div 100) * t
       IN  /\ 0 - t <= resto
           /\ resto <= 2 * t
           /\ 0 - t <= 2 * (100 * resto - (p % 100) * t)
           /\ 2 * (100 * resto - (p % 100) * t) < t

DiaExemplo ==
    <<[status |-> "Ativo", data_hora |-> <<1, 0, 0, 0>>, data_hora_final |-> <<1, 0, 10, 0>>],
      [status |-> "Ocioso", data_hora |-> <<1, 0, 10, 0>>, data_hora_final |-> <<1, 0, 20, 0>>]>>

\* C13: for a selected day with total duration > 0 the idle percentage is
\* 100 * idle seconds / total seconds rounded to two decimals, the sums
\* taken over the intervals that start on the selected day, an open interval
\* counting up to now; for [Active 00:00-00:10, Idle 00:10-00:20] it is 50.0.
C13_PercentualOcioso ==
    /\ (TotaisLidos /\ SegundosDoDia(Len(log_atividade), "*") > 0)
          => Arredondado(horas[4], SegundosDoDia(Len(log_atividade), "Ocioso"),
                         SegundosDoDia(Len(log_atividade), "*"))
    /\ (TotaisLidos /\ log_atividade = DiaExemplo /\ hoje = 1) => horas[4] = 5000

C13_Witness ==
    /\ TotaisLidos
    /\ log_atividade = DiaExemplo
    /\ hoje = 1
    /\ horas[4] = 5000
\* C14: when one status row has an end timestamp that cannot be parsed, the
\* refresh still colours every other interval of the selected day: the grid
\* is written and the start minute of each well-formed row is coloured.
C14_SoALinhaRuim ==
    u_pc = "desenha" =>
        \A i \in LinhasDoDia :
            (BemFormado(rows[i][2]) /\ BemFormado(rows[i][3])) =>
                /\ ~StrptimeFalha(rows)
                /\ Desenho(rows, hoje)[MinutoDoDia(rows[i][2])] \in {"green", "red"}
\* C15: a status tracker step whose classified status equals status_atual
\* writes nothing and leaves status_atual alone; the first sample of a
\* lifetime (status_atual unset) does exactly one insert and no update; any
\* other change closes the open interval of the old status with end = now
\* and then inserts the new status with start = the same now.
C15_PassoDoStatus ==
    [][/\ (m_pc = "loop" /\ m_pc' \in {"foco", "update", "insert"}) =>
            /\ log_atividade' = log_atividade
            /\ status_atual' = status_atual
            /\ novo_status' = status_atual => m_pc' = "foco"
            /\ (novo_status' /= status_atual /\ status_atual = None) => m_pc' = "insert"
            /\ (novo_status' /= status_atual /\ status_atual /= None) => m_pc' = "update"
            /\ m_pc' /= "foco" => agora' = Strftime(clock)
       /\ m_pc = "update" =>
            /\ m_pc' = "insert"
            /\ agora' = agora
            /\ status_atual' = status_atual
            /\ Len(log_atividade') = Len(log_atividade)
            /\ \A i \in 1..Len(log_atividade) :
                  log_atividade'[i] =
                      IF /\ log_atividade[i].status = status_atual
                         /\ log_atividade[i].data_hora_final = NULL
                      THEN [status |-> status_atual,
                            data_hora |-> log_atividade[i].data_hora,
                            data_hora_final |-> agora]
                      ELSE log_atividade[i]
       /\ m_pc = "insert" =>
            /\ m_pc' = "foco"
            /\ status_atual' = novo_status
            /\ log_atividade' =
                  log_atividade \o <<[status |-> novo_status, data_hora |-> agora,
                                      data_hora_final |-> NULL]>>
       /\ m_pc \in {"foco", "sleep"} =>
            /\ log_atividade' = log_atividade
            /\ status_atual' = status_atual]_vars

\* a change of status has just been written: the old row ends where the new
\* one starts
C15_Witness ==
    /\ m_pc = "foco"
    /\ Len(log_atividade) >= 2
    /\ log_atividade[Len(log_atividade)].status = status_atual
    /\ log_atividade[Len(log_atividade)].data_hora_final = NULL
    /\ log_atividade[Len(log_atividade) - 1].status /= status_atual
    /\ log_atividade[Len(log_atividade) - 1].data_hora_final =
          log_atividade[Len(log_atividade)].data_hora
\* (program, title) of a focus row
ParDe(r) == <<r.nome_programa, r.nome_documento>>

\* C16: on a tick registrar_programa is invoked if and only if the sampled
\* (program, title) pair differs from the last pair fed to it: a tick with an
\* unchanged pair writes nothing to programas_documentos, a tick with a new
\* pair appends one row carrying it, and no two consecutive focus rows carry
\* the same pair.
C16_SoQuandoMuda ==
    [][/\ m_pc = "foco" =>
            IF amostra_foco' = <<ultimo_app, ultimo_titulo>>
            THEN /\ programas_documentos' = programas_documentos
                 /\ <<ultimo_app', ultimo_titulo'>> = <<ultimo_app, ultimo_titulo>>
            ELSE /\ Len(programas_documentos') = Len(programas_documentos) + 1
                 /\ ParDe(programas_documentos'[Len(programas_documentos')]) = amostra_foco'
                 /\ <<ultimo_app', ultimo_titulo'>> = amostra_foco'
       /\ m_pc /= "foco" => programas_documentos' = programas_documentos
       /\ \A i \in 1..(Len(programas_documentos') - 1) :
             ParDe(programas_documentos'[i]) /= ParDe(programas_documentos'[i + 1])]_vars

\* both kinds of tick have happened: a pair was fed, then sampled again unchanged
C16_Witness ==
    /\ m_pc = "sleep"
    /\ ticks >= 1
    /\ Len(programas_documentos) = 1
    /\ amostra_foco = ParDe(programas_documentos[1])
    /\ Julianday(programas_documentos[1].data_hora_inicio) < clock
\* C17: the first poll tick of a process lifetime opens a focus interval
\* whatever the first focus sample is, (None, None) included: when the first
\* tick reaches its sleep the focus series has an open row carrying the
\* sampled pair.
C17_PrimeiroTickAbre ==
    (m_pc = "sleep" /\ ticks = 0) =>
        \E i \in Abertas(programas_documentos) :
            ParDe(programas_documentos[i]) = amostra_foco
\* C19: every status interval that starts on the selected day colours at
\* least the slot of its start minute on that day's grid; when it ends (or
\* "now" falls) on a later day, the slots from its start minute through
\* 23:59 are coloured.
C19_IntervaloVisivel ==
    u_pc = "desenha" =>
        \A i \in LinhasDoDia :
            LET colors == Colors(rows, hoje)
                s == MinutoDoDia(rows[i][2])
            IN  /\ colors[s] \in {"green", "red"}
                /\ DateStr(rows[i][3]) > hoje =>
                      \A x \in s..(Slots - 1) : colors[x] \in {"green", "red"}
\* C20: at any time at most one future invocation of atualizar_canvas is
\* pending on the Tk timer, whatever periodic refreshes and date navigation
\* events (dia_anterior, dia_proximo, dia_hoje, on_data_selecionada) happened.
C20_UmAgendamento == agendados <= 1
\* positions at which a thread executes a statement, commits or fetches on
\* the shared connection
NaConexao ==
    {"c_execute", "c_commit", "execute", "commit", "retorno",
     "p_update", "p_insert", "p_commit"}

\* C18: at most one thread at a time executes statements, commits or fetches
\* on the shared connection; each such step of executar, criar_tabelas and
\* registrar_programa happens while the thread holds BancoUtil._lock; a
\* thread that has left its with block, normally or by an error, no longer
\* holds the lock.
C18_ExclusaoMutua ==
    /\ Cardinality({t \in Threads : db_pc[t] \in NaConexao}) <= 1
    /\ \A t \in Threads : db_pc[t] \in NaConexao => lock = t
    /\ \A t \in Threads : db_pc[t] = "fora" => lock /= t

\* after a failed statement released the lock, the monitor thread is on the
\* connection while the refresh waits for the lock
C18_Witness ==
    /\ falhas_permitidas < MaxFalhas
    /\ lock = "monitor"
    /\ db_pc["monitor"] \in NaConexao
    /\ u_pc = "horas"
    /\ db_pc["tk"] = "fora"
====
